---- MODULE Spec2Model ----
(***************************************************************************)
(* Model of the image-generation job handling of the MayaLens API:         *)
(* generateImage and its delayed completion callback, the two status       *)
(* queries getImageGeneration and getUserImageGenerations, the authenticate*)
(* middleware in front of them and the process-exit handlers of app.ts     *)
(* (Spec); of its user management: the users router, the functions of      *)
(* userController.ts, login and refreshToken (UsersSpec); of its product   *)
(* handlers getAllProducts, createProduct and updateProduct (ProductsSpec);*)
(* and of uploadProductImage, deleteProductImage and updateProfile         *)
(* (ImagesSpec).                                                           *)
(*                                                                         *)
(* In the job handling one action is one database operation together with  *)
(* the synchronous code that runs after its await resolves, up to the next *)
(* await; so it is for createProduct, updateProduct and uploadProductImage.*)
(* Every other function of the controllers is one action.                  *)
(***************************************************************************)
EXTENDS Integers, Sequences, FiniteSets, TLC

\* ---------------------------------------------------------------- bounds
MaxJobs == 1        \* job records created in one run
MaxInflight == 1    \* requests that are between two awaits at one time
MaxUserWrites == 1  \* writes to the table users applied in one run
MaxCalls == 2       \* calls of the product and image handlers between two awaits

\* ------------------------------------------------------------- constants
TimerDelayMs == 2000

UserIds == {"u1", "u2", "a1"}
ProductIds == {"p1", "p2", "p3"}   \* p2 and p3 name no stored product at first
ImageIds == {"i1", "i2", "i3"}     \* i2 and i3 name no stored image at first
Styles == {"STUDIO"}
Anonymous == "anonymous"
Null == "null"

JobIds == 1..MaxJobs
Slots == 1..MaxInflight
Calls == 1..MaxCalls

\* UserRole, GenerationStatus of @prisma/client as the controllers use them
UserRole == [ADMIN |-> "ADMIN", USER |-> "USER"]
GenerationStatus == [PENDING |-> "PENDING", COMPLETED |-> "COMPLETED", FAILED |-> "FAILED"]

NoUser == [absent |-> TRUE]
NoProduct == [absent |-> TRUE]
NoJob == [absent |-> TRUE]
NoImage == [absent |-> TRUE]
Idle == [pc |-> "idle"]
NoTimer == [pc |-> "none"]
NoCall == [pc |-> "none"]
NoCaller == [id |-> Null, role |-> Null]
NoResp == [op |-> "none", caller |-> NoCaller, code |-> 0, target |-> 0,
           data |-> <<>>, total |-> 0,
           token |-> Null, subject |-> Null, arg |-> Null]

\* outcomes of a database call as the awaiting code sees them:
\*   ok   - applied, the promise resolves
\*   fail - not applied, the promise rejects
\*   lost - applied, but the promise rejects (connection dropped or timed
\*          out after the write)
DbWriteOutcomes == {"ok", "fail", "lost"}
DbReadOutcomes == {"ok", "fail"}

VARIABLES
  up,        \* the node process is running
  users,     \* table users: id -> [role, isActive, firstName, email] or NoUser
  products,  \* table products: id -> [userId, name, category] or NoProduct
  jobs,      \* table image_generations: id -> record or NoJob
  images,    \* table product_images: id -> [productId, isPrimary] or NoImage
  userWrites, \* writes to the table users applied so far
  nextId,    \* next fresh image-generation id
  timers,    \* per job: position of its setTimeout callback
  reqs,      \* per slot: request that passed authenticate, and its position
  calls,     \* per call of a product, image or profile handler: its position
  resp       \* the HTTP response sent by the last step, NoResp if none

vars == <<up, users, products, jobs, images, userWrites, nextId, timers, reqs,
          calls, resp>>

Init ==
  /\ up = TRUE
  /\ users = [u \in UserIds |->
                [role |-> IF u = "a1" THEN UserRole.ADMIN ELSE UserRole.USER,
                 isActive |-> TRUE,
                 firstName |-> "f1",
                 email |-> u \o "@x"]]
  /\ products = [p \in ProductIds |->
                   IF p = "p1"
                   THEN [userId |-> "u1", name |-> "n1", category |-> "c1"]
                   ELSE NoProduct]
  /\ jobs = [j \in JobIds |-> NoJob]
  /\ images = [i \in ImageIds |->
                 IF i = "i1" THEN [productId |-> "p1", isPrimary |-> TRUE]
                 ELSE NoImage]
  /\ userWrites = 0
  /\ nextId = 1
  /\ timers = [j \in JobIds |-> NoTimer]
  /\ reqs = [s \in Slots |-> Idle]
  /\ calls = [c \in Calls |-> NoCall]
  /\ resp = NoResp

\* an answer: the handler, req.user, the HTTP status and the data of the body.
\* Of the request it answers it keeps, where the handler sets them: target (the
\* job id asked for), token (the user the request's token or credentials
\* name), subject (the user id of req.params) and arg (the value asked for:
\* a status filter, a role, an isActive flag)
Response(op, caller, code, data) ==
  [op |-> op, caller |-> caller, code |-> code, target |-> 0,
   data |-> data, total |-> 0,
   token |-> Null, subject |-> Null, arg |-> Null]

\* the process is running and the answer of the previous request has been
\* sent: requests are taken up one answer at a time (timer callbacks and the
\* process start do not wait for it)
Ready == up /\ resp = NoResp

\* ----------------------------------------------------------- authenticate
\* middleware/auth.ts authenticate: the token names user u (Anonymous: no
\* token); the user row is read and attached to the request as req.user.
Authenticate(s, u) ==
  /\ Ready
  /\ reqs[s] = Idle
  /\ \E db \in DbReadOutcomes :
       IF u = Anonymous
       THEN /\ db = "ok"
            /\ resp' = Response("authenticate", NoCaller, 401, <<>>)
            /\ reqs' = reqs
       ELSE IF db = "fail"
       THEN /\ resp' = Response("authenticate", [id |-> u, role |-> Null], 500, <<>>)
            /\ reqs' = reqs
       ELSE IF users[u] = NoUser \/ ~users[u].isActive
       THEN /\ resp' = Response("authenticate", [id |-> u, role |-> Null], 401, <<>>)
            /\ reqs' = reqs
       ELSE /\ resp' = NoResp
            /\ reqs' = [reqs EXCEPT ![s] =
                          [pc |-> "handler",
                           user |-> [id |-> u, role |-> users[u].role]]]
  /\ UNCHANGED <<up, users, products, images, userWrites, calls, jobs, nextId, timers>>

\* ---------------------------------------------------------- generateImage
\* imageController.ts:394. encodeURIComponent leaves the letters, digits and
\* underscores of a GenerationStyle name as they are.
MockImageUrl(style) ==
  "https://via.placeholder.com/512x512/4F46E5/FFFFFF?text=" \o style

\* variant of NewJob: the status left to the column default of the
\* architecture document (PROCESSING)
NewJob_DefaultStatus(user, productId, style, now) ==
  [status |-> "PROCESSING",
   userId |-> user.id,
   productId |-> productId,
   style |-> style,
   imageUrl |-> Null,
   errorMessage |-> Null,
   completedAt |-> Null,
   createdAt |-> now]

\* imageController.ts:357-364, the data of prisma.imageGeneration.create
NewJob(user, productId, style, now) ==
  [status |-> GenerationStatus.PENDING,
   userId |-> user.id,
   productId |-> productId,
   style |-> style,
   imageUrl |-> Null,
   errorMessage |-> Null,
   completedAt |-> Null,
   createdAt |-> now]

\* imageController.ts:365-378, the select of the create
CreatedView(id, job) ==
  [id |-> id, style |-> job.style, status |-> job.status,
   createdAt |-> job.createdAt, product |-> job.productId]

\* creations that may still happen: started requests count against MaxJobs
CanStartCreate ==
  nextId + Cardinality({s \in Slots : reqs[s].pc = "create"}) <= MaxJobs

\* imageController.ts:355-420: create the record, arm the timer, answer 202;
\* a rejected create is answered 500 by the outer catch (421-428)
CreateAndRespond(s, user, productId, style) ==
  \E db \in DbWriteOutcomes :
    LET fkOk == /\ users[user.id] # NoUser
                /\ productId # Null => products[productId] # NoProduct
        applied == fkOk /\ db \in {"ok", "lost"}
        job == NewJob(user, productId, style, nextId)
    IN /\ jobs' = IF applied THEN [jobs EXCEPT ![nextId] = job] ELSE jobs
       /\ nextId' = IF applied THEN nextId + 1 ELSE nextId
       /\ IF applied /\ db = "ok"
          THEN /\ timers' = [timers EXCEPT ![nextId] =
                               [pc |-> "armed", style |-> style]]
               /\ resp' = Response("generateImage", user, 202,
                                   <<CreatedView(nextId, job)>>)
          ELSE /\ timers' = timers
               /\ resp' = Response("generateImage", user, 500, <<>>)
       /\ reqs' = [reqs EXCEPT ![s] = Idle]
       /\ UNCHANGED <<up, users, products, images, userWrites, calls>>

\* variant of CanGenerate: the ownership check left out
CanGenerate_Anyone(user, product) == TRUE

\* imageController.ts:344
CanGenerate(user, product) ==
  user.role = UserRole.ADMIN \/ user.id = product.userId

\* imageController.ts:322-353 with a productId in the body: product lookup
\* and permission check
GenerateImageLookup(s, productId, style) ==
  /\ Ready
  /\ reqs[s].pc = "handler"
  /\ CanStartCreate
  /\ LET user == reqs[s].user IN
     \E db \in DbReadOutcomes :
       IF db = "fail"
       THEN /\ resp' = Response("generateImage", user, 500, <<>>)
            /\ reqs' = [reqs EXCEPT ![s] = Idle]
       ELSE IF products[productId] = NoProduct
       THEN /\ resp' = Response("generateImage", user, 404, <<>>)
            /\ reqs' = [reqs EXCEPT ![s] = Idle]
       ELSE IF ~CanGenerate(user, products[productId])
       THEN /\ resp' = Response("generateImage", user, 403, <<>>)
            /\ reqs' = [reqs EXCEPT ![s] = Idle]
       ELSE /\ resp' = NoResp
            /\ reqs' = [reqs EXCEPT ![s] =
                          [pc |-> "create", user |-> user,
                           productId |-> productId, style |-> style]]
  /\ UNCHANGED <<up, users, products, images, userWrites, calls, jobs, nextId, timers>>

\* imageController.ts:355-420 after the product lookup
GenerateImageCreate(s) ==
  /\ Ready
  /\ reqs[s].pc = "create"
  /\ nextId <= MaxJobs
  /\ CreateAndRespond(s, reqs[s].user, reqs[s].productId, reqs[s].style)

\* imageController.ts:311-429 without a productId in the body
GenerateImageNoProduct(s, style) ==
  /\ Ready
  /\ reqs[s].pc = "handler"
  /\ CanStartCreate
  /\ CreateAndRespond(s, reqs[s].user, Null, style)

\* ------------------------------------------- setTimeout callback (391-414)
\* variant of CompletedData: the job moved to an intermediate status first
CompletedData_Processing(job, style) ==
  [job EXCEPT !.status = "PROCESSING"]

\* variant of CompletedData: the result URL not written
CompletedData_NoUrl(job, style) ==
  [job EXCEPT !.status = GenerationStatus.COMPLETED,
              !.completedAt = "set"]

\* imageController.ts:398-402, the data of the update in the try block
CompletedData(job, style) ==
  [job EXCEPT !.status = GenerationStatus.COMPLETED,
              !.imageUrl = MockImageUrl(style),
              !.completedAt = "set"]

\* variant of FailedData: the failure recorded without its message
FailedData_NoMessage(job) ==
  [job EXCEPT !.status = GenerationStatus.FAILED]

\* imageController.ts:408-411, the data of the update in the catch block
FailedData(job) ==
  [job EXCEPT !.status = GenerationStatus.FAILED,
              !.errorMessage = "Image generation failed"]

\* try block: prisma.imageGeneration.update({status: COMPLETED, imageUrl,
\* completedAt}); update rejects when the record is missing
TimerTry(j) ==
  /\ up
  /\ timers[j].pc = "armed"
  /\ \E db \in DbWriteOutcomes :
       LET found == jobs[j] # NoJob
           applied == found /\ db \in {"ok", "lost"}
       IN /\ jobs' = IF applied
                     THEN [jobs EXCEPT ![j] = CompletedData(jobs[j], timers[j].style)]
                     ELSE jobs
          /\ timers' = IF applied /\ db = "ok"
                       THEN [timers EXCEPT ![j] = NoTimer]
                       ELSE [timers EXCEPT ![j].pc = "catch"]
  /\ resp' = NoResp
  /\ UNCHANGED <<up, users, products, images, userWrites, calls, nextId, reqs>>

\* catch block: prisma.imageGeneration.update({status: FAILED,
\* errorMessage}); when this update rejects too, the rejection is unhandled
\* and app.ts:136-139 exits the process
TimerCatch(j) ==
  /\ up
  /\ timers[j].pc = "catch"
  /\ \E db \in DbWriteOutcomes :
       LET found == jobs[j] # NoJob
           applied == found /\ db \in {"ok", "lost"}
       IN /\ jobs' = IF applied
                     THEN [jobs EXCEPT ![j] = FailedData(jobs[j])]
                     ELSE jobs
          /\ IF applied /\ db = "ok"
             THEN /\ timers' = [timers EXCEPT ![j] = NoTimer]
                  /\ UNCHANGED <<up, reqs, calls>>
             ELSE /\ up' = FALSE
                  /\ timers' = [k \in JobIds |-> NoTimer]
                  /\ reqs' = [s \in Slots |-> Idle]
                  /\ calls' = [c \in Calls |-> NoCall]
  /\ resp' = NoResp
  /\ UNCHANGED <<users, products, images, userWrites, nextId>>

\* ------------------------------------------------------ process lifecycle
\* app.ts:123-145: SIGTERM, SIGINT, uncaughtException end the process; its
\* timers and the requests it was serving are gone
Stop ==
  /\ Ready
  /\ up' = FALSE
  /\ timers' = [j \in JobIds |-> NoTimer]
  /\ reqs' = [s \in Slots |-> Idle]
  /\ calls' = [c \in Calls |-> NoCall]
  /\ resp' = NoResp
  /\ UNCHANGED <<users, products, images, userWrites, jobs, nextId>>

\* app.ts:148-180 startServer: connects and listens, reads no job
StartServer ==
  /\ ~up
  /\ up' = TRUE
  /\ resp' = NoResp
  /\ UNCHANGED <<users, products, images, userWrites, calls, jobs, nextId, timers, reqs>>

\* ----------------------------------------------------- getImageGeneration
\* imageController.ts:438-461, the select of the lookup
GenerationView(id, job) ==
  [id |-> id, style |-> job.style, status |-> job.status,
   imageUrl |-> job.imageUrl, errorMessage |-> job.errorMessage,
   createdAt |-> job.createdAt, completedAt |-> job.completedAt,
   user |-> job.userId, product |-> job.productId]

\* variant of CanAccess: the ownership check left out
CanAccess_Anyone(user, job) == TRUE

\* imageController.ts:474
CanAccess(user, job) ==
  user.role = UserRole.ADMIN \/ user.id = job.userId

\* variant of GetImageGeneration: a query that expires the job it reads
GetImageGeneration_Expires(s, id) ==
  /\ Ready
  /\ reqs[s].pc = "handler"
  /\ jobs[id] # NoJob
  /\ jobs' = [jobs EXCEPT ![id] = FailedData(jobs[id])]
  /\ resp' = [Response("getImageGeneration", reqs[s].user, 200,
                        <<GenerationView(id, jobs'[id])>>) EXCEPT !.target = id]
  /\ reqs' = [reqs EXCEPT ![s] = Idle]
  /\ UNCHANGED <<up, users, products, images, userWrites, calls, nextId, timers>>

\* imageController.ts:432-497
GetImageGeneration(s, id) ==
  /\ Ready
  /\ reqs[s].pc = "handler"
  /\ LET user == reqs[s].user IN
     \E db \in DbReadOutcomes :
       resp' = [(IF db = "fail"
                 THEN Response("getImageGeneration", user, 500, <<>>)
                 ELSE IF jobs[id] = NoJob
                 THEN Response("getImageGeneration", user, 404, <<>>)
                 ELSE IF ~CanAccess(user, jobs[id])
                 THEN Response("getImageGeneration", user, 403, <<>>)
                 ELSE Response("getImageGeneration", user, 200,
                               <<GenerationView(id, jobs[id])>>))
                  EXCEPT !.target = id]
  /\ reqs' = [reqs EXCEPT ![s] = Idle]
  /\ UNCHANGED <<up, users, products, images, userWrites, calls, jobs, nextId, timers>>

\* ------------------------------------------------ getUserImageGenerations
\* variant of WhereUserId: no owner condition for anyone
WhereUserId_None(user) == Null

\* imageController.ts:505-515, the where clause; an undefined userId is no
\* condition for prisma
WhereUserId(user) ==
  IF user.role = UserRole.ADMIN THEN Null ELSE user.id

Matches(job, whereUserId, status, productId) ==
  /\ whereUserId # Null => job.userId = whereUserId
  /\ status # Null => job.status = status
  /\ productId # Null => job.productId = productId

\* imageController.ts:525-546, the select of findMany (no errorMessage)
ListView(id, job) ==
  [id |-> id, style |-> job.style, status |-> job.status,
   imageUrl |-> job.imageUrl,
   createdAt |-> job.createdAt, completedAt |-> job.completedAt,
   user |-> job.userId, product |-> job.productId]

\* imageController.ts:548-550, orderBy createdAt desc
RECURSIVE NewestFirst(_)
NewestFirst(ids) ==
  IF ids = {} THEN <<>>
  ELSE LET m == CHOOSE i \in ids :
                  \A k \in ids : jobs[k].createdAt <= jobs[i].createdAt
       IN <<m>> \o NewestFirst(ids \ {m})

\* imageController.ts:551-552, skip and take of findMany
SkipTake(seq, skip, take) ==
  SubSeq(seq, skip + 1, IF skip + take < Len(seq) THEN skip + take ELSE Len(seq))

\* imageController.ts:502, the defaults of page and limit
DefaultPage == 1
DefaultLimit == 20
\* (page, limit) of the query strings: none given, the second page of size 1,
\* and a page number the schema refuses
Pagings == {<<Null, Null>>, <<"2", "1">>, <<"0", Null>>}
StatusFilters == {Null, "COMPLETED"}
ProductFilters == {Null} \cup ProductIds

\* a query string of GET /generations: the keys page, limit, status, productId
\* (Null: the key is not in the query string)
Queries ==
  {[page |-> pg[1], limit |-> pg[2], status |-> st, productId |-> p] :
     pg \in Pagings, st \in StatusFilters, p \in ProductFilters}

\* the number a query-string value is converted to (Joi, convert: true)
ToNumber(str) ==
  CASE str = "0" -> 0
    [] str = "1" -> 1
    [] str = "2" -> 2

\* utils/validation paginationSchema under the options of validateRequest
\* (convert, stripUnknown): page an integer >= 1, default 1; limit an integer
\* in 1..100, default 20; the keys the schema does not name (status,
\* productId) are stripped from the value
PaginationSchema(query) ==
  LET page == IF query.page = Null THEN 1 ELSE ToNumber(query.page)
      limit == IF query.limit = Null THEN 20 ELSE ToNumber(query.limit)
  IN [error |-> ~(page >= 1 /\ limit >= 1 /\ limit <= 100),
      value |-> [page |-> page, limit |-> limit]]

\* imageController.ts:500-580, the handler on the req.query it is given (a
\* key that is not in it is undefined and takes the default of line 502, or
\* sets no condition): the answer for req.user = user when the database
\* calls end as db
GetUserImageGenerations(user, query, db) ==
  LET Key(k, default) == IF k \in DOMAIN query THEN query[k] ELSE default
      page == Key("page", DefaultPage)
      limit == Key("limit", DefaultLimit)
      found == {j \in JobIds : jobs[j] # NoJob
                  /\ Matches(jobs[j], WhereUserId(user),
                             Key("status", Null), Key("productId", Null))}
      rows == SkipTake(NewestFirst(found), (page - 1) * limit, limit)
  IN IF db = "fail"
     THEN Response("getUserImageGenerations", user, 500, <<>>)
     ELSE [Response("getUserImageGenerations", user, 200,
                    [i \in 1..Len(rows) |-> ListView(rows[i], jobs[rows[i]])])
             EXCEPT !.total = Cardinality(found)]

\* routes/products.ts:215-222 after requireAuthenticatedUser:
\* validateRequest(paginationSchema, 'query') answers 400 or replaces
\* req.query by the validated value, then the handler runs
GenerationsRoute(s, query) ==
  /\ Ready
  /\ reqs[s].pc = "handler"
  /\ LET user == reqs[s].user
         v == PaginationSchema(query)
     IN IF v.error
        THEN resp' = Response("validateRequest", user, 400, <<>>)
        ELSE \E db \in DbReadOutcomes :
               LET answer == GetUserImageGenerations(user, v.value, db)
               IN resp' = IF answer.code = 200
                          THEN [answer EXCEPT !.arg = query.status]
                          ELSE answer
  /\ reqs' = [reqs EXCEPT ![s] = Idle]
  /\ UNCHANGED <<up, users, products, images, userWrites, calls, jobs, nextId, timers>>

\* ------------------------------------------------- requireRole, users router
\* middleware/auth.ts:155-179 requireRole(...roles), for the req.user it finds:
\* next() is called, or the request is answered with code
RequireRole(user, roles) ==
  IF user = NoCaller THEN [next |-> FALSE, code |-> 401]
  ELSE IF user.role \notin roles THEN [next |-> FALSE, code |-> 403]
  ELSE [next |-> TRUE, code |-> 0]

\* middleware/auth.ts:182
RequireAdmin(user) == RequireRole(user, {UserRole.ADMIN})

\* the routes of routes/users.ts whose chain is requireAdmin
AdminRoutes ==
  {"getAllUsers", "getUserStats", "updateUserRole", "toggleUserStatus", "deleteUser"}

\* routes/users.ts:52-67, 88-115: a request whose token names user u
\* (Anonymous: no token) to one of the admin routes. The chain is the rate
\* limiter and requireAdmin; authenticate is not in it and app.ts mounts the
\* router without it, so requireAdmin finds no req.user.
UsersAdminRoute(s, u, route) ==
  /\ Ready
  /\ reqs[s] = Idle
  /\ LET reqUser == NoCaller
         r == RequireAdmin(reqUser)
     IN IF r.next
        THEN /\ resp' = NoResp
             /\ reqs' = [reqs EXCEPT ![s] = [pc |-> "handler", user |-> reqUser]]
        ELSE /\ resp' = [Response("requireAdmin", reqUser, r.code, <<>>)
                           EXCEPT !.token = u]
             /\ reqs' = reqs
  /\ UNCHANGED <<up, users, products, images, userWrites, calls, jobs, nextId, timers>>

\* ------------------------------------------------------------ userController
\* The functions of userController.ts, called with the req.user that
\* authenticate attached to the request.

OwnedProducts(id) ==
  {p \in ProductIds : products[p] # NoProduct /\ products[p].userId = id}
OwnedGenerations(id) ==
  {j \in JobIds : jobs[j] # NoJob /\ jobs[j].userId = id}

\* userController.ts:136 and 149, take: 5
RecentTake == 5

\* userController.ts:104-158, the select of getUserById: the row, the
\* user's products and the user's newest image generations (ProductIds has
\* fewer than RecentTake products)
UserView(id) ==
  [id |-> id, role |-> users[id].role, isActive |-> users[id].isActive,
   products |-> OwnedProducts(id),
   imageGenerations |-> SkipTake(NewestFirst(OwnedGenerations(id)), 0, RecentTake)]

\* userController.ts:100-182 getUserById
GetUserById(s, id) ==
  /\ Ready
  /\ reqs[s].pc = "handler"
  /\ LET user == reqs[s].user IN
     \E db \in DbReadOutcomes :
       resp' = IF db = "fail"
               THEN Response("getUserById", user, 500, <<>>)
               ELSE IF users[id] = NoUser
               THEN [Response("getUserById", user, 404, <<>>) EXCEPT !.subject = id]
               ELSE [Response("getUserById", user, 200, <<UserView(id)>>)
                       EXCEPT !.subject = id]
  /\ reqs' = [reqs EXCEPT ![s] = Idle]
  /\ UNCHANGED <<up, users, products, images, userWrites, calls, jobs, nextId, timers>>

\* userController.ts:320-333 and 382-395, the select of the two updates
UpdatedUserView(id, row) ==
  [id |-> id, role |-> row.role, isActive |-> row.isActive]

\* the answer of a user-management request about user id asking for arg
UserAnswer(op, user, code, data, id, arg) ==
  [Response(op, user, code, data) EXCEPT !.subject = id, !.arg = arg]

\* the answer before any write: 500 when the existence check rejects, 404
\* when it finds no row, 400 when the self check refuses; 0 when the handler
\* goes on to its write
Refusal(db, id, self) ==
  IF db = "fail" THEN 500
  ELSE IF users[id] = NoUser THEN 404
  ELSE IF self THEN 400
  ELSE 0

\* userController.ts:308
SelfRoleChange(user, id) ==
  user.id = id /\ user.role = UserRole.ADMIN

\* userController.ts:288-347 updateUserRole: existence check, self check,
\* update, answer
UpdateUserRole(s, id, role) ==
  /\ Ready
  /\ reqs[s].pc = "handler"
  /\ LET user == reqs[s].user IN
     \E db \in DbReadOutcomes, upd \in DbWriteOutcomes :
       LET refusal == Refusal(db, id, SelfRoleChange(user, id))
           applied == refusal = 0 /\ upd \in {"ok", "lost"}
       IN /\ refusal = 0 => userWrites < MaxUserWrites
          /\ users' = IF applied THEN [users EXCEPT ![id].role = role] ELSE users
          /\ userWrites' = IF applied THEN userWrites + 1 ELSE userWrites
          /\ resp' = IF refusal # 0
                     THEN UserAnswer("updateUserRole", user, refusal, <<>>, id, role)
                     ELSE IF upd = "ok"
                     THEN UserAnswer("updateUserRole", user, 200,
                                     <<UpdatedUserView(id, users'[id])>>, id, role)
                     ELSE UserAnswer("updateUserRole", user, 500, <<>>, id, role)
  /\ reqs' = [reqs EXCEPT ![s] = Idle]
  /\ UNCHANGED <<up, products, images, jobs, nextId, timers, calls>>

\* the isActive of a request body as the answer keeps it
Flag(isActive) == IF isActive THEN "true" ELSE "false"

\* userController.ts:370
SelfDeactivation(user, id, isActive) ==
  user.id = id /\ user.role = UserRole.ADMIN /\ ~isActive

\* userController.ts:350-409 toggleUserStatus: existence check, self check,
\* update, answer
ToggleUserStatus(s, id, isActive) ==
  /\ Ready
  /\ reqs[s].pc = "handler"
  /\ LET user == reqs[s].user IN
     \E db \in DbReadOutcomes, upd \in DbWriteOutcomes :
       LET refusal == Refusal(db, id, SelfDeactivation(user, id, isActive))
           applied == refusal = 0 /\ upd \in {"ok", "lost"}
       IN /\ refusal = 0 => userWrites < MaxUserWrites
          /\ users' = IF applied THEN [users EXCEPT ![id].isActive = isActive] ELSE users
          /\ userWrites' = IF applied THEN userWrites + 1 ELSE userWrites
          /\ resp' = IF refusal # 0
                     THEN UserAnswer("toggleUserStatus", user, refusal, <<>>, id,
                                     Flag(isActive))
                     ELSE IF upd = "ok"
                     THEN UserAnswer("toggleUserStatus", user, 200,
                                     <<UpdatedUserView(id, users'[id])>>, id,
                                     Flag(isActive))
                     ELSE UserAnswer("toggleUserStatus", user, 500, <<>>, id,
                                     Flag(isActive))
  /\ reqs' = [reqs EXCEPT ![s] = Idle]
  /\ UNCHANGED <<up, products, images, jobs, nextId, timers, calls>>

\* variant of SelfDeletion: only an ADMIN is kept from deleting themselves
SelfDeletion_AdminOnly(user, id) ==
  user.id = id /\ user.role = UserRole.ADMIN

\* userController.ts:435
SelfDeletion(user, id) == user.id = id

\* userController.ts:446-449 imageGeneration.deleteMany({userId: id}); a job
\* of another user for one of the deleted products keeps its row and loses
\* the reference (the optional relation's referential action SetNull)
DeleteUserGenerations(id) ==
  [j \in JobIds |->
     IF jobs[j] = NoJob \/ jobs[j].userId = id THEN NoJob
     ELSE IF jobs[j].productId \in OwnedProducts(id)
     THEN [jobs[j] EXCEPT !.productId = Null]
     ELSE jobs[j]]

\* variant of DeleteUserImages: the images of the user's products left behind
DeleteUserImages_Kept(id) == images

\* userController.ts:452-458 productImage.deleteMany({product: {userId: id}})
DeleteUserImages(id) ==
  [i \in ImageIds |->
     IF images[i] # NoImage /\ images[i].productId \in OwnedProducts(id)
     THEN NoImage ELSE images[i]]

\* userController.ts:461-463 product.deleteMany({userId: id})
DeleteUserProducts(id) ==
  [p \in ProductIds |-> IF p \in OwnedProducts(id) THEN NoProduct ELSE products[p]]

\* userController.ts:412-483 deleteUser: existence check, self check, the
\* prisma.$transaction of the three deleteMany and user.delete, answer
DeleteUser(s, id) ==
  /\ Ready
  /\ reqs[s].pc = "handler"
  /\ LET user == reqs[s].user IN
     \E db \in DbReadOutcomes, tx \in DbWriteOutcomes :
       LET refusal == Refusal(db, id, SelfDeletion(user, id))
           applied == refusal = 0 /\ tx \in {"ok", "lost"}
       IN /\ refusal = 0 => userWrites < MaxUserWrites
          /\ jobs' = IF applied THEN DeleteUserGenerations(id) ELSE jobs
          /\ images' = IF applied THEN DeleteUserImages(id) ELSE images
          /\ products' = IF applied THEN DeleteUserProducts(id) ELSE products
          /\ users' = IF applied THEN [users EXCEPT ![id] = NoUser] ELSE users
          /\ userWrites' = IF applied THEN userWrites + 1 ELSE userWrites
          /\ resp' = IF refusal # 0
                     THEN UserAnswer("deleteUser", user, refusal, <<>>, id, Null)
                     ELSE IF tx = "ok"
                     THEN UserAnswer("deleteUser", user, 200, <<>>, id, Null)
                     ELSE UserAnswer("deleteUser", user, 500, <<>>, id, Null)
  /\ reqs' = [reqs EXCEPT ![s] = Idle]
  /\ UNCHANGED <<up, nextId, timers, calls>>

\* ------------------------------------------------------------ authController
\* the answer of login and refreshToken for the user the credentials name
TokenAnswer(op, code, u) ==
  [Response(op, NoCaller, code,
            IF code = 200 THEN <<[id |-> u, role |-> users[u].role]>> ELSE <<>>)
     EXCEPT !.token = u]

\* unnamed/part_008:125-212 login with the email of user u and a password
\* that verifies or not; the update of lastLoginAt changes no column of the
\* model
Login(u, passwordOk) ==
  /\ Ready
  /\ \E db \in DbReadOutcomes, upd \in DbWriteOutcomes :
       resp' = IF db = "fail" THEN TokenAnswer("login", 500, u)
               ELSE IF users[u] = NoUser THEN TokenAnswer("login", 401, u)
               ELSE IF ~users[u].isActive THEN TokenAnswer("login", 401, u)
               ELSE IF ~passwordOk THEN TokenAnswer("login", 401, u)
               ELSE IF upd # "ok" THEN TokenAnswer("login", 500, u)
               ELSE TokenAnswer("login", 200, u)
  /\ UNCHANGED <<up, users, products, images, userWrites, calls, jobs, nextId, timers, reqs>>

\* variant of RefreshToken: the isActive check left out
RefreshToken_NoActiveCheck(u) ==
  /\ Ready
  /\ \E db \in DbReadOutcomes :
       resp' = IF u = Anonymous THEN TokenAnswer("refreshToken", 401, u)
               ELSE IF db = "fail" THEN TokenAnswer("refreshToken", 500, u)
               ELSE IF users[u] = NoUser THEN TokenAnswer("refreshToken", 401, u)
               ELSE TokenAnswer("refreshToken", 200, u)
  /\ UNCHANGED <<up, users, products, images, userWrites, calls, jobs, nextId, timers, reqs>>

\* unnamed/part_008:215-290 refreshToken with an unexpired refresh token of
\* user u (Anonymous: the token does not verify)
RefreshToken(u) ==
  /\ Ready
  /\ \E db \in DbReadOutcomes :
       resp' = IF u = Anonymous THEN TokenAnswer("refreshToken", 401, u)
               ELSE IF db = "fail" THEN TokenAnswer("refreshToken", 500, u)
               ELSE IF users[u] = NoUser \/ ~users[u].isActive
               THEN TokenAnswer("refreshToken", 401, u)
               ELSE TokenAnswer("refreshToken", 200, u)
  /\ UNCHANGED <<up, users, products, images, userWrites, calls, jobs, nextId, timers, reqs>>

\* ------------------------------------------------------- productController
\* unnamed/part_007 is controllers/productController.ts. Its functions and
\* those of imageController.ts and updateProfile below are called with the
\* req.user that authenticate attached to the request of user u.
ReqUser(u) == [id |-> u, role |-> users[u].role]
Authenticated(u) == users[u] # NoUser /\ users[u].isActive

\* prisma's { contains: part, mode: 'insensitive' }; the values of the model
\* are in lower case
Contains(text, part) ==
  \E i \in 1..(Len(text) - Len(part) + 1) :
    SubSeq(text, i, i + Len(part) - 1) = part

\* the query strings of getAllProducts: no filter, the products of a named
\* user, a search with a category, and the second page of size 1
ProductQueries ==
  {[page |-> Null, limit |-> Null, search |-> Null, category |-> Null, userId |-> Null],
   [page |-> Null, limit |-> Null, search |-> Null, category |-> Null, userId |-> "u1"],
   [page |-> Null, limit |-> Null, search |-> Null, category |-> Null, userId |-> "u2"],
   [page |-> Null, limit |-> Null, search |-> "n", category |-> "c", userId |-> "u2"],
   [page |-> "2", limit |-> "1", search |-> Null, category |-> Null, userId |-> Null]}

\* variant of ProductWhere: the userId of the query kept for every caller
ProductWhere_AsAsked(user, query) ==
  [search |-> query.search, category |-> query.category, userId |-> query.userId]

\* part_007:19-41, the where clause: the filters of the query, and for a
\* caller who is no ADMIN the caller's id in place of the userId asked for
ProductWhere(user, query) ==
  [search |-> query.search,
   category |-> query.category,
   userId |-> IF user.role # UserRole.ADMIN THEN user.id ELSE query.userId]

\* a row satisfies the where clause (description is a column matched like
\* category, which the model leaves out)
ProductMatches(product, where) ==
  /\ where.search # Null =>
       \/ Contains(product.name, where.search)
       \/ Contains(product.category, where.search)
  /\ where.category # Null => Contains(product.category, where.category)
  /\ where.userId # Null => product.userId = where.userId

ProductImages(p) ==
  {i \in ImageIds : images[i] # NoImage /\ images[i].productId = p}

\* part_007:51-85, the select of findMany (ImageIds has no more than the 3
\* images it takes)
ProductView(p) ==
  [id |-> p, name |-> products[p].name, category |-> products[p].category,
   user |-> products[p].userId, images |-> ProductImages(p)]

\* part_007:86-88, orderBy createdAt desc, the default: a product is created
\* with the first id no row has, so a later id is a newer product
NewestProductsFirst(ids) ==
  SelectSeq(<<"p3", "p2", "p1">>, LAMBDA p : p \in ids)

\* part_007:7-118 getAllProducts
GetAllProducts(u, query) ==
  /\ Ready
  /\ Authenticated(u)
  /\ LET user == ReqUser(u)
         where == ProductWhere(user, query)
         page == IF query.page = Null THEN 1 ELSE ToNumber(query.page)
         limit == IF query.limit = Null THEN 20 ELSE ToNumber(query.limit)
         found == {p \in ProductIds :
                     products[p] # NoProduct /\ ProductMatches(products[p], where)}
         rows == SkipTake(NewestProductsFirst(found), (page - 1) * limit, limit)
     IN \E db \in DbReadOutcomes :
          resp' = IF db = "fail"
                  THEN Response("getAllProducts", user, 500, <<>>)
                  ELSE [Response("getAllProducts", user, 200,
                                 [i \in 1..Len(rows) |-> ProductView(rows[i])])
                          EXCEPT !.total = Cardinality(found),
                                 !.arg = query.userId]
  /\ UNCHANGED <<up, users, products, images, userWrites, calls, jobs, nextId,
                 timers, reqs>>

\* the ids in the order in which rows get them
ProductIdOrder == <<"p1", "p2", "p3">>
FreeProductIds == SelectSeq(ProductIdOrder, LAMBDA p : products[p] = NoProduct)
Creating == {c \in Calls : calls[c].pc = "create"}

\* part_007:210-215 findFirst({name, userId})
NameTaken(name, userId, except) ==
  \E p \in ProductIds \ {except} :
    /\ products[p] # NoProduct
    /\ products[p].name = name
    /\ products[p].userId = userId

\* part_007:196-224 createProduct up to its create: the lookup of a product
\* of the caller with the name asked for, 409 when there is one. A call is
\* taken up while an id is left for its row.
CreateProductLookup(c, u, name) ==
  /\ Ready
  /\ Authenticated(u)
  /\ calls[c] = NoCall
  /\ Len(FreeProductIds) > Cardinality(Creating)
  /\ LET user == ReqUser(u) IN
     \E db \in DbReadOutcomes :
       IF db = "fail"
       THEN /\ resp' = Response("createProduct", user, 500, <<>>)
            /\ calls' = calls
       ELSE IF NameTaken(name, user.id, Null)
       THEN /\ resp' = Response("createProduct", user, 409, <<>>)
            /\ calls' = calls
       ELSE /\ resp' = NoResp
            /\ calls' = [calls EXCEPT ![c] =
                           [pc |-> "create", op |-> "createProduct",
                            user |-> user, name |-> name]]
  /\ UNCHANGED <<up, users, products, images, userWrites, jobs, nextId, timers, reqs>>

\* part_007:227-235, the data of prisma.product.create (the category of
\* every body is c1)
NewProduct(user, name) ==
  [userId |-> user.id, name |-> name, category |-> "c1"]

\* part_007:226-268 createProduct from its create on: the row, 201 with it;
\* 500 when the create is rejected (the owner's row is gone, or the database
\* fails)
CreateProductCreate(c) ==
  /\ Ready
  /\ calls[c].pc = "create"
  /\ LET user == calls[c].user
         id == Head(FreeProductIds)
     IN \E db \in DbWriteOutcomes :
          LET applied == users[user.id] # NoUser /\ db \in {"ok", "lost"}
          IN /\ products' = IF applied
                            THEN [products EXCEPT ![id] = NewProduct(user, calls[c].name)]
                            ELSE products
             /\ resp' = IF applied /\ db = "ok"
                        THEN [Response("createProduct", user, 201,
                                       <<[id |-> id, name |-> calls[c].name,
                                          user |-> user.id]>>)
                                EXCEPT !.subject = id]
                        ELSE Response("createProduct", user, 500, <<>>)
  /\ calls' = [calls EXCEPT ![c] = NoCall]
  /\ UNCHANGED <<up, users, images, userWrites, jobs, nextId, timers, reqs>>

\* part_007:301
CanUpdate(user, product) ==
  user.role = UserRole.ADMIN \/ user.id = product.userId

\* part_007:272-312 updateProduct up to the check of the name: the lookup of
\* the product, 404, 403; a body without name or with the name the product
\* has goes on to the update
UpdateProductLookup(c, u, id, name) ==
  /\ Ready
  /\ Authenticated(u)
  /\ calls[c] = NoCall
  /\ LET user == ReqUser(u) IN
     \E db \in DbReadOutcomes :
       IF db = "fail"
       THEN /\ resp' = Response("updateProduct", user, 500, <<>>)
            /\ calls' = calls
       ELSE IF products[id] = NoProduct
       THEN /\ resp' = Response("updateProduct", user, 404, <<>>)
            /\ calls' = calls
       ELSE IF ~CanUpdate(user, products[id])
       THEN /\ resp' = Response("updateProduct", user, 403, <<>>)
            /\ calls' = calls
       ELSE /\ resp' = NoResp
            /\ calls' = [calls EXCEPT ![c] =
                           [pc |-> IF name # Null /\ name # products[id].name
                                   THEN "conflict" ELSE "update",
                            op |-> "updateProduct", user |-> user,
                            id |-> id, name |-> name,
                            owner |-> products[id].userId]]
  /\ UNCHANGED <<up, users, products, images, userWrites, jobs, nextId, timers, reqs>>

\* part_007:313-328, the lookup of another product of the owner with the new
\* name, 409 when there is one
UpdateProductConflict(c) ==
  /\ Ready
  /\ calls[c].pc = "conflict"
  /\ \E db \in DbReadOutcomes :
       IF db = "fail"
       THEN /\ resp' = Response("updateProduct", calls[c].user, 500, <<>>)
            /\ calls' = [calls EXCEPT ![c] = NoCall]
       ELSE IF NameTaken(calls[c].name, calls[c].owner, calls[c].id)
       THEN /\ resp' = Response("updateProduct", calls[c].user, 409, <<>>)
            /\ calls' = [calls EXCEPT ![c] = NoCall]
       ELSE /\ resp' = NoResp
            /\ calls' = [calls EXCEPT ![c].pc = "update"]
  /\ UNCHANGED <<up, users, products, images, userWrites, jobs, nextId, timers, reqs>>

\* part_007:331-384, prisma.product.update with the name of the body when it
\* has one, 200 with the row; 500 when the update is rejected (the row is
\* gone, or the database fails)
UpdateProductUpdate(c) ==
  /\ Ready
  /\ calls[c].pc = "update"
  /\ LET id == calls[c].id
         name == calls[c].name
     IN \E db \in DbWriteOutcomes :
          LET applied == products[id] # NoProduct /\ db \in {"ok", "lost"}
          IN /\ products' = IF applied /\ name # Null
                            THEN [products EXCEPT ![id].name = name]
                            ELSE products
             /\ resp' = IF applied /\ db = "ok"
                        THEN [Response("updateProduct", calls[c].user, 200,
                                       <<[id |-> id, name |-> products'[id].name,
                                          user |-> products'[id].userId]>>)
                                EXCEPT !.subject = id]
                        ELSE Response("updateProduct", calls[c].user, 500, <<>>)
  /\ calls' = [calls EXCEPT ![c] = NoCall]
  /\ UNCHANGED <<up, users, images, userWrites, jobs, nextId, timers, reqs>>

\* ------------------------------------------------- imageController, images
ImageIdOrder == <<"i1", "i2", "i3">>
FreeImageIds == SelectSeq(ImageIdOrder, LAMBDA i : images[i] = NoImage)
Uploading == {c \in Calls : calls[c].pc \in {"unset", "save"}}

\* imageController.ts:88
CanUpload(user, product) ==
  user.role = UserRole.ADMIN \/ user.id = product.userId

\* the isPrimary of a multipart body: absent, or the text of a form field
PrimaryFields == {Null, "true", "false"}

\* imageController.ts:56, 114, 132: isPrimary = false by default, tested by
\* if (isPrimary) and stored as Boolean(isPrimary); a text that is not empty
\* is truthy
Truthy(field) == field # Null

\* outcome of sharp and of the Cloudinary calls
MediaOutcomes == {"ok", "fail"}

\* imageController.ts:44-111 uploadProductImage up to its first write: no
\* file 400, the lookup of the product, 404, 403, then sharp and the upload
\* to Cloudinary, which change nothing of the model and end the call with
\* 500 when they fail. A call is taken up while an id is left for its row.
UploadLookup(c, u, productId, isPrimary, file) ==
  /\ Ready
  /\ Authenticated(u)
  /\ calls[c] = NoCall
  /\ Len(FreeImageIds) > Cardinality(Uploading)
  /\ LET user == ReqUser(u) IN
     \E db \in DbReadOutcomes, media \in MediaOutcomes :
       IF ~file
       THEN /\ resp' = Response("uploadProductImage", user, 400, <<>>)
            /\ calls' = calls
       ELSE IF db = "fail"
       THEN /\ resp' = Response("uploadProductImage", user, 500, <<>>)
            /\ calls' = calls
       ELSE IF products[productId] = NoProduct
       THEN /\ resp' = Response("uploadProductImage", user, 404, <<>>)
            /\ calls' = calls
       ELSE IF ~CanUpload(user, products[productId])
       THEN /\ resp' = Response("uploadProductImage", user, 403, <<>>)
            /\ calls' = calls
       ELSE IF media = "fail"
       THEN /\ resp' = Response("uploadProductImage", user, 500, <<>>)
            /\ calls' = calls
       ELSE /\ resp' = NoResp
            /\ calls' = [calls EXCEPT ![c] =
                           [pc |-> IF Truthy(isPrimary) THEN "unset" ELSE "save",
                            op |-> "uploadProductImage", user |-> user,
                            productId |-> productId,
                            isPrimary |-> Truthy(isPrimary)]]
  /\ UNCHANGED <<up, users, products, images, userWrites, jobs, nextId, timers, reqs>>

\* imageController.ts:115-123 updateMany({productId, isPrimary: true},
\* {isPrimary: false})
UnsetPrimary(productId) ==
  [i \in ImageIds |->
     IF images[i] # NoImage /\ images[i].productId = productId /\ images[i].isPrimary
     THEN [images[i] EXCEPT !.isPrimary = FALSE]
     ELSE images[i]]

\* imageController.ts:113-124, the step of a primary upload that unsets the
\* primary images of the product; 500 when the updateMany is rejected
UploadUnset(c) ==
  /\ Ready
  /\ calls[c].pc = "unset"
  /\ \E db \in DbWriteOutcomes :
       /\ images' = IF db \in {"ok", "lost"}
                    THEN UnsetPrimary(calls[c].productId) ELSE images
       /\ IF db = "ok"
          THEN /\ resp' = NoResp
               /\ calls' = [calls EXCEPT ![c].pc = "save"]
          ELSE /\ resp' = Response("uploadProductImage", calls[c].user, 500, <<>>)
               /\ calls' = [calls EXCEPT ![c] = NoCall]
  /\ UNCHANGED <<up, users, products, userWrites, jobs, nextId, timers, reqs>>

\* imageController.ts:126-161 prisma.productImage.create and the answer 201;
\* 500 when the create is rejected (the product is gone, or the database
\* fails)
UploadSave(c) ==
  /\ Ready
  /\ calls[c].pc = "save"
  /\ LET id == Head(FreeImageIds)
         productId == calls[c].productId
     IN \E db \in DbWriteOutcomes :
          LET applied == products[productId] # NoProduct /\ db \in {"ok", "lost"}
          IN /\ images' = IF applied
                          THEN [images EXCEPT ![id] =
                                  [productId |-> productId,
                                   isPrimary |-> calls[c].isPrimary]]
                          ELSE images
             /\ resp' = IF applied /\ db = "ok"
                        THEN [Response("uploadProductImage", calls[c].user, 201,
                                       <<[id |-> id, isPrimary |-> calls[c].isPrimary,
                                          product |-> productId]>>)
                                EXCEPT !.subject = id]
                        ELSE Response("uploadProductImage", calls[c].user, 500, <<>>)
  /\ calls' = [calls EXCEPT ![c] = NoCall]
  /\ UNCHANGED <<up, users, products, userWrites, jobs, nextId, timers, reqs>>

\* imageController.ts:268
CanDeleteImage(user, product) ==
  user.role = UserRole.ADMIN \/ user.id = product.userId

\* variant of ImagesAfterDelete: the row left in the table
ImagesAfterDelete_Kept(imageId) == images

\* imageController.ts:292-294 prisma.productImage.delete
ImagesAfterDelete(imageId) == [images EXCEPT ![imageId] = NoImage]

\* imageController.ts:231-308 deleteProductImage: the lookup of the image,
\* 404 when there is none or it is of another product, 403, the deletion from
\* Cloudinary, whose failure is logged and dropped (284-289), the deletion
\* of the row, 200. The answer keeps the outcome of the Cloudinary call.
DeleteProductImage(u, productId, imageId) ==
  /\ Ready
  /\ Authenticated(u)
  /\ LET user == ReqUser(u) IN
     \E db \in DbReadOutcomes, destroy \in MediaOutcomes, del \in DbWriteOutcomes :
       LET refusal ==
             IF db = "fail" THEN 500
             ELSE IF images[imageId] = NoImage
                     \/ images[imageId].productId # productId THEN 404
             ELSE IF ~CanDeleteImage(user, products[productId]) THEN 403
             ELSE 0
           applied == refusal = 0 /\ del \in {"ok", "lost"}
       IN /\ images' = IF applied THEN ImagesAfterDelete(imageId) ELSE images
          /\ resp' = IF refusal # 0
                     THEN [Response("deleteProductImage", user, refusal, <<>>)
                             EXCEPT !.subject = imageId]
                     ELSE [Response("deleteProductImage", user,
                                    IF del = "ok" THEN 200 ELSE 500, <<>>)
                             EXCEPT !.subject = imageId, !.arg = destroy]
  /\ UNCHANGED <<up, users, products, userWrites, calls, jobs, nextId, timers, reqs>>

\* ------------------------------------------------ userController, profile
\* the row of the user a profile request names; an id may be one no row has
UserRow(id) == IF id \in UserIds THEN users[id] ELSE NoUser

\* the bodies of updateProfile (lastName is handled like firstName): a new
\* first name, the email of another user, an email no user has
ProfileBodies ==
  {[firstName |-> "f2", email |-> Null],
   [firstName |-> Null, email |-> "u2@x"],
   [firstName |-> Null, email |-> "new@x"]}

\* variant of CanUpdateProfile: every caller may update every profile
CanUpdateProfile_Anyone(user, id) == TRUE

\* userController.ts:200
CanUpdateProfile(user, id) ==
  user.id = id \/ user.role = UserRole.ADMIN

\* userController.ts:226-231 findFirst({email, id: {not: id}})
EmailTaken(email, id) ==
  \E o \in UserIds \ {id} : users[o] # NoUser /\ users[o].email = email

\* userController.ts:246-250, the data of the update (emailVerified is no
\* column of the model)
ProfileData(row, body) ==
  [row EXCEPT !.firstName = IF body.firstName # Null THEN body.firstName ELSE @,
              !.email = IF body.email # Null THEN body.email ELSE @]

\* userController.ts:185-285 updateProfile: 403 for a caller who is neither
\* the user nor an ADMIN, then the lookup of the user, 404, the lookup of the
\* email, 409, the update, 200
UpdateProfile(u, id, body) ==
  /\ Ready
  /\ Authenticated(u)
  /\ LET user == ReqUser(u) IN
     \E db \in DbReadOutcomes, upd \in DbWriteOutcomes :
       LET refusal ==
             IF ~CanUpdateProfile(user, id) THEN 403
             ELSE IF db = "fail" THEN 500
             ELSE IF UserRow(id) = NoUser THEN 404
             ELSE IF /\ body.email # Null
                     /\ body.email # users[id].email
                     /\ EmailTaken(body.email, id) THEN 409
             ELSE 0
           applied == refusal = 0 /\ upd \in {"ok", "lost"}
       IN /\ refusal = 0 => userWrites < MaxUserWrites
          /\ users' = IF applied
                      THEN [users EXCEPT ![id] = ProfileData(users[id], body)]
                      ELSE users
          /\ userWrites' = IF applied THEN userWrites + 1 ELSE userWrites
          /\ resp' = [Response("updateProfile", user,
                               IF refusal # 0 THEN refusal
                               ELSE IF upd = "ok" THEN 200 ELSE 500,
                               IF refusal = 0 /\ upd = "ok"
                               THEN <<[id |-> id, firstName |-> users'[id].firstName,
                                       email |-> users'[id].email]>>
                               ELSE <<>>)
                        EXCEPT !.subject = id]
  /\ UNCHANGED <<up, products, images, calls, jobs, nextId, timers, reqs>>

\* ------------------------------------------------------------------ system
\* requestLogger.ts:32-61, the res.json wrapper every answer passes through:
\* the answer leaves the process; resp holds it until then
SendResponse ==
  /\ resp # NoResp
  /\ resp' = NoResp
  /\ UNCHANGED <<up, users, products, images, userWrites, calls, jobs, nextId, timers, reqs>>

Next ==
  \/ \E s \in Slots, u \in UserIds \cup {Anonymous} : Authenticate(s, u)
  \/ \E s \in Slots, p \in ProductIds, st \in Styles : GenerateImageLookup(s, p, st)
  \/ \E s \in Slots : GenerateImageCreate(s)
  \/ \E s \in Slots, st \in Styles : GenerateImageNoProduct(s, st)
  \/ \E j \in JobIds : TimerTry(j)
  \/ \E j \in JobIds : TimerCatch(j)
  \/ \E s \in Slots, id \in JobIds : GetImageGeneration(s, id)
  \/ \E s \in Slots, q \in Queries : GenerationsRoute(s, q)
  \/ Stop
  \/ StartServer
  \/ SendResponse

\* the image-generation routes of routes/products.ts and the process
Spec == Init /\ [][Next]_vars

\* node runs a due timer callback and the continuation of a settled promise;
\* the deployment restarts an exited process (restartPolicyType ON_FAILURE)
FairSpec ==
  /\ Spec
  /\ \A j \in JobIds : WF_vars(TimerTry(j)) /\ WF_vars(TimerCatch(j))
  /\ WF_vars(StartServer)

\* the requests to the users router and to login and refreshToken:
\*   the user whose record getUserById is asked for,
\*   (id, role) of updateUserRole: the ADMIN's own id, and a promotion,
\*   (id, isActive) of toggleUserStatus: the ADMIN's own deactivation, the
\*   deactivation and the reactivation of a user,
\*   the id of deleteUser: the owner of the product and the ADMIN,
\*   the user whose credentials or refresh token a request carries
LookupIds == {"u1", "u2"}
RoleRequests == {<<"a1", UserRole.USER>>, <<"u2", UserRole.ADMIN>>}
StatusRequests == {<<"a1", FALSE>>, <<"u2", FALSE>>, <<"u2", TRUE>>}
DeleteIds == {"u1", "a1"}
Credentials == {"u2"}

\* User management next to the submission of jobs: the users router as
\* routes/users.ts wires it (UsersAdminRoute, GetUserById), login and
\* refreshToken, and the three writing functions of userController.ts. These
\* three are behind UsersAdminRoute, which lets no request through; here they
\* are called with an authenticated request, the way the chain
\* requireSystemAdmin (middleware/auth.ts:273) or a direct call reaches them.
\* The callbacks of the submitted jobs are the matter of Spec.
UsersNext ==
  \/ \E s \in Slots, u \in UserIds \cup {Anonymous} : Authenticate(s, u)
  \/ \E s \in Slots, p \in ProductIds, st \in Styles : GenerateImageLookup(s, p, st)
  \/ \E s \in Slots : GenerateImageCreate(s)
  \/ \E s \in Slots, st \in Styles : GenerateImageNoProduct(s, st)
  \/ \E s \in Slots, u \in UserIds \cup {Anonymous}, r \in AdminRoutes :
       UsersAdminRoute(s, u, r)
  \/ \E s \in Slots, id \in LookupIds : GetUserById(s, id)
  \/ \E s \in Slots, x \in RoleRequests : UpdateUserRole(s, x[1], x[2])
  \/ \E s \in Slots, x \in StatusRequests : ToggleUserStatus(s, x[1], x[2])
  \/ \E s \in Slots, id \in DeleteIds : DeleteUser(s, id)
  \/ \E u \in Credentials, ok \in BOOLEAN : Login(u, ok)
  \/ \E u \in Credentials \cup {Anonymous} : RefreshToken(u)
  \/ SendResponse

UsersSpec == Init /\ [][UsersNext]_vars

\* the requests to the product handlers: the users who list, create and
\* update, the products and the names the requests give (Null: a body
\* without name)
Listers == {"u1", "u2", "a1"}
Creators == {"u1", "u2"}
Updaters == {"u1", "u2", "a1"}
CreatedNames == {"n1", "n2"}
UpdatedProducts == {"p1", "p2"}
UpdatedNames == {"n2", Null}

\* The product routes (routes/products.ts:49-101): every function is called
\* with the req.user of an authenticated request; calls holds the requests
\* that are between two of their database calls.
ProductsNext ==
  \/ \E u \in Listers, q \in ProductQueries : GetAllProducts(u, q)
  \/ \E c \in Calls, u \in Creators, n \in CreatedNames : CreateProductLookup(c, u, n)
  \/ \E c \in Calls : CreateProductCreate(c)
  \/ \E c \in Calls, u \in Updaters, p \in UpdatedProducts, n \in UpdatedNames :
       UpdateProductLookup(c, u, p, n)
  \/ \E c \in Calls : UpdateProductConflict(c)
  \/ \E c \in Calls : UpdateProductUpdate(c)
  \/ SendResponse

ProductsSpec == Init /\ [][ProductsNext]_vars

\* the requests to the product image handlers and to updateProfile: the
\* owner of product p1 and another user, the products and images they name,
\* the profiles they ask to change
Uploaders == {"u1", "u2"}
NamedProducts == {"p1", "p2"}
NamedImages == {"i1", "i2"}
ProfileCallers == {"u1", "u2", "a1"}
ProfileTargets == {"u1", "u0"}

\* The product image routes (routes/products.ts:163-193) and the profile
\* route (routes/users.ts:79-86), called and held in calls the same way.
ImagesNext ==
  \/ \E c \in Calls, u \in Uploaders, p \in NamedProducts, f \in PrimaryFields,
        file \in BOOLEAN : UploadLookup(c, u, p, f, file)
  \/ \E c \in Calls : UploadUnset(c)
  \/ \E c \in Calls : UploadSave(c)
  \/ \E u \in Uploaders, p \in NamedProducts, i \in NamedImages :
       DeleteProductImage(u, p, i)
  \/ \E u \in ProfileCallers, id \in ProfileTargets, b \in ProfileBodies :
       UpdateProfile(u, id, b)
  \/ SendResponse

ImagesSpec == Init /\ [][ImagesNext]_vars

\* ------------------------------------------------------------------ claims
Exists(j) == jobs[j] # NoJob
Terminal(job) ==
  job.status \in {GenerationStatus.COMPLETED, GenerationStatus.FAILED}

\* the edges the specification allows (RUNNING is no GenerationStatus of the
\* code) and the edges the callback takes
SpecEdges ==
  {<<"PENDING", "RUNNING">>, <<"RUNNING", "PENDING">>, <<"RUNNING", "COMPLETED">>,
   <<"RUNNING", "FAILED">>, <<"PENDING", "FAILED">>}
CodeEdges ==
  {<<"PENDING", "COMPLETED">>, <<"PENDING", "FAILED">>, <<"COMPLETED", "FAILED">>}

StatusChangesWithin(edges) ==
  \A j \in JobIds :
    (jobs[j] # NoJob /\ jobs'[j] # NoJob /\ jobs'[j].status # jobs[j].status)
      => <<jobs[j].status, jobs'[j].status>> \in edges

C2_ResultXorError ==
  \A j \in JobIds :
    Exists(j) =>
      /\ jobs[j].status = GenerationStatus.COMPLETED
           => jobs[j].imageUrl # Null /\ jobs[j].errorMessage = Null
      /\ jobs[j].status = GenerationStatus.FAILED
           => jobs[j].errorMessage # Null /\ jobs[j].imageUrl = Null
      /\ jobs[j].status = GenerationStatus.PENDING
           => jobs[j].imageUrl = Null /\ jobs[j].errorMessage = Null

\* C3 as stated: once a job is COMPLETED or FAILED no step changes its status,
\* result or error.
C3_TerminalIsFinal ==
  [][\A j \in JobIds :
       (Exists(j) /\ Terminal(jobs[j]) /\ jobs'[j] # NoJob)
         => /\ jobs'[j].status = jobs[j].status
            /\ jobs'[j].imageUrl = jobs[j].imageUrl
            /\ jobs'[j].errorMessage = jobs[j].errorMessage]_vars

Completed(j) ==
  /\ Exists(j)
  /\ jobs[j].status = GenerationStatus.COMPLETED
  /\ jobs[j].imageUrl # Null

\* C5: under FairSpec a job whose callback is armed reaches COMPLETED with a
\* result, unless the process stops first or the completing update is
\* rejected (the callback enters its catch block).
C5_ArmedJobCompletes ==
  \A j \in JobIds :
    (timers[j].pc = "armed") ~> (Completed(j) \/ timers[j].pc = "catch" \/ ~up)

\* a job completed by an update that resolved, in a running process
C5_Witness ==
  \E j \in JobIds : Completed(j) /\ timers[j] = NoTimer /\ up
                      /\ jobs[j].errorMessage = Null /\ resp = NoResp

\* C6 as stated: a job that is PENDING when the process is down is, after the
\* restart, eventually COMPLETED or FAILED.
C6_PendingSurvivesRestart ==
  \A j \in JobIds :
    (~up /\ Exists(j) /\ jobs[j].status = GenerationStatus.PENDING)
      ~> (Exists(j) /\ Terminal(jobs[j]))

\* the step that creates job j, and the request that makes it
Creates(j) == jobs[j] = NoJob /\ jobs'[j] # NoJob
Creator(s, j) ==
  /\ reqs[s].pc \in {"handler", "create"}
  /\ reqs'[s] = Idle
  /\ reqs[s].user.id = jobs'[j].userId

\* C7 as stated: a job created with a productId is owned by the owner of that
\* product, whatever the caller's role.
C7_JobOwnerIsProductOwner ==
  [][\A j \in JobIds :
       (Creates(j) /\ jobs'[j].productId # Null)
         => /\ products[jobs'[j].productId] # NoProduct
            /\ jobs'[j].userId = products[jobs'[j].productId].userId]_vars

\* C7 as amended: a job created with a productId by a caller whose role is
\* not ADMIN is owned by the owner of that product; a job an ADMIN creates is
\* owned by the ADMIN.
C7_NonAdminJobOwnerIsProductOwner ==
  [][\A j \in JobIds :
       (Creates(j) /\ jobs'[j].productId # Null)
         => /\ products[jobs'[j].productId] # NoProduct
            /\ \E s \in Slots :
                 /\ Creator(s, j)
                 /\ \/ reqs[s].user.role = UserRole.ADMIN
                    \/ jobs'[j].userId = products[jobs'[j].productId].userId]_vars

\* a job for a product, created by the product's owner, who is no ADMIN
C7_Witness ==
  \E j \in JobIds :
    /\ Exists(j)
    /\ jobs[j].productId # Null
    /\ jobs[j].userId = products[jobs[j].productId].userId
    /\ users[jobs[j].userId].role = UserRole.USER

\* C8: when the lookup of getImageGeneration resolves, the answer is 404 iff
\* no job has the id, 403 iff the job exists and the caller is neither its
\* owner nor ADMIN, and 200 with that job's record otherwise; whatever the
\* outcome, a caller who is neither owner nor ADMIN gets no record.
C8_StatusQueryAnswers ==
  resp.op = "getImageGeneration" =>
    LET id == resp.target
        caller == resp.caller
        privileged == caller.role = UserRole.ADMIN
        owner == Exists(id) /\ jobs[id].userId = caller.id
    IN /\ resp.code \in {200, 403, 404, 500}
       /\ resp.code = 404 => ~Exists(id)
       /\ resp.code = 403 => Exists(id) /\ ~owner /\ ~privileged
       /\ resp.code = 200 => /\ Exists(id) /\ (owner \/ privileged)
                             /\ resp.data = <<GenerationView(id, jobs[id])>>
       /\ resp.code # 200 => resp.data = <<>>
       /\ \A i \in 1..Len(resp.data) :
            privileged \/ resp.data[i].user = caller.id

\* another user's job has just been refused with 403
C8_Witness ==
  /\ resp.op = "getImageGeneration"
  /\ resp.code = 403
  /\ Exists(resp.target)
  /\ jobs[resp.target].userId # resp.caller.id

\* C9: a step that answers getImageGeneration or getUserImageGenerations
\* leaves every stored record as it was.
C9_StatusQueriesReadOnly ==
  [][resp'.op \in {"getImageGeneration", "getUserImageGenerations"}
       => /\ jobs' = jobs
          /\ users' = users
          /\ products' = products
          /\ nextId' = nextId]_vars

\* a list query answered with a record while its job is still being processed
C9_Witness ==
  /\ resp.op = "getUserImageGenerations"
  /\ resp.code = 200
  /\ Len(resp.data) > 0
  /\ timers[resp.data[1].id].pc = "armed"

\* C10: every row getUserImageGenerations returns to a caller who is not
\* ADMIN is a job owned by that caller.
C10_ListOnlyOwnJobs ==
  (resp.op = "getUserImageGenerations" /\ resp.caller.role # UserRole.ADMIN)
    => \A i \in 1..Len(resp.data) :
         /\ resp.data[i].user = resp.caller.id
         /\ Exists(resp.data[i].id)
         /\ jobs[resp.data[i].id].userId = resp.caller.id

\* a list answered to a non-ADMIN caller while another user's job is stored
C10_Witness ==
  /\ resp.op = "getUserImageGenerations"
  /\ resp.code = 200
  /\ resp.caller.role = UserRole.USER
  /\ \E j \in JobIds : Exists(j) /\ jobs[j].userId # resp.caller.id

\* C11 as stated: a list answered to a request that carried a status filter
\* holds only jobs whose status is the requested one.
C11_ListHonoursStatusFilter ==
  (resp.op = "getUserImageGenerations" /\ resp.arg # Null)
    => \A i \in 1..Len(resp.data) : resp.data[i].status = resp.arg

C14_StaleUpdateChangesNothing ==
  [][\A j \in JobIds :
       (Exists(j) /\ jobs[j].status # GenerationStatus.PENDING
          /\ timers[j] # NoTimer /\ timers'[j] # timers[j])
         => jobs'[j] = jobs[j]]_vars

\* C15 as stated: a job whose first attempt has failed (its callback is in
\* the catch block, one failure being fewer than maxAttempts = 3) is not made
\* FAILED by the next step of its callback.
C15_OneFailureIsRetried ==
  [][\A j \in JobIds :
       (Exists(j) /\ jobs[j].status = GenerationStatus.PENDING
          /\ timers[j].pc = "catch" /\ jobs'[j] # NoJob)
         => jobs'[j].status # GenerationStatus.FAILED]_vars

\* ------------------------------------------------- claims, user management
\* the user a token names has a row, is active and has the role
ActiveWithRole(u, role) ==
  /\ u # Anonymous
  /\ users[u] # NoUser
  /\ users[u].isActive
  /\ users[u].role = role

\* C16 as stated: of the requests to an admin-only route of the users router
\* the guard answers the one without a token with 401 and the one with the
\* token of an active non-ADMIN user with 403, and it answers none with the
\* token of an active ADMIN (that request is passed to the controller).
C16_AdminRoutesGuarded ==
  resp.op = "requireAdmin" =>
    /\ resp.token = Anonymous => resp.code = 401
    /\ ActiveWithRole(resp.token, UserRole.USER) => resp.code = 403
    /\ ~ActiveWithRole(resp.token, UserRole.ADMIN)

Requester(answer) ==
  IF answer.op = "authenticate" THEN answer.caller.id ELSE answer.token

\* C18: while the row of a user has isActive false, no request with that
\* user's token passes authenticate, and login and refreshToken for that user
\* issue no token: the answer is 401 (500 when the lookup of the user is
\* rejected) and carries no data.
C18_InactiveIsRejected ==
  [][\A u \in UserIds :
       (users[u] # NoUser /\ ~users[u].isActive) =>
         /\ \A s \in Slots :
              (reqs[s] = Idle /\ reqs'[s] # Idle) => reqs'[s].user.id # u
         /\ (/\ resp = NoResp
             /\ resp'.op \in {"authenticate", "login", "refreshToken"}
             /\ Requester(resp') = u)
              => resp'.code \in {401, 500} /\ resp'.data = <<>>]_vars

\* a refresh token of the user that toggleUserStatus deactivated is refused
C18_Witness ==
  /\ resp.op = "refreshToken"
  /\ resp.token = "u2"
  /\ resp.code = 401
  /\ users["u2"] # NoUser
  /\ ~users["u2"].isActive
  /\ userWrites = 1

\* the answer is about a request of the caller on the caller's own id that
\* the controllers refuse
SelfRequest(answer) ==
  /\ answer.subject = answer.caller.id
  /\ \/ answer.op = "updateUserRole" /\ answer.caller.role = UserRole.ADMIN
     \/ /\ answer.op = "toggleUserStatus"
        /\ answer.caller.role = UserRole.ADMIN
        /\ answer.arg = "false"
     \/ answer.op = "deleteUser"

C20_FailureLeavesAll ==
  [][(resp = NoResp /\ resp'.op = "deleteUser" /\ resp'.code = 500)
       => UNCHANGED <<users, products, images, jobs>>]_vars

\* the step removed user id with everything deleteUser names: the row, the
\* user's image generations, the user's products and their images; the rows
\* of other users, their products and those products' images are as before
Deleted(id) ==
  /\ users[id] # NoUser
  /\ users' = [users EXCEPT ![id] = NoUser]
  /\ \A j \in JobIds :
       IF j \in OwnedGenerations(id) THEN jobs'[j] = NoJob
       ELSE (jobs[j] = NoJob) = (jobs'[j] = NoJob)
  /\ \A p \in ProductIds :
       products'[p] = IF p \in OwnedProducts(id) THEN NoProduct ELSE products[p]
  /\ \A i \in ImageIds :
       images'[i] = IF /\ images[i] # NoImage
                       /\ images[i].productId \in OwnedProducts(id)
                    THEN NoImage ELSE images[i]

\* C20: a step of deleteUser removes either everything or nothing; when it
\* answers 200 it removed everything; when it answers 400 or 404 it removed
\* nothing; when it answers 500 it removed nothing, or everything (the
\* transaction was committed and its promise rejected).
C20_AllOrNothing ==
  [][(resp = NoResp /\ resp'.op = "deleteUser") =>
       /\ Deleted(resp'.subject) \/ UNCHANGED <<users, products, images, jobs>>
       /\ resp'.code = 200 => Deleted(resp'.subject)
       /\ resp'.code \in {400, 404} => UNCHANGED <<users, products, images, jobs>>]_vars

\* deleteUser answered 200 for the owner of product p1, who had submitted a
\* job: the user, the product, its image and the job are gone
C20_Witness ==
  /\ resp.op = "deleteUser"
  /\ resp.code = 200
  /\ resp.subject = "u1"
  /\ users["u1"] = NoUser
  /\ products["p1"] = NoProduct
  /\ images["i1"] = NoImage
  /\ nextId > 1
  /\ \A j \in JobIds : jobs[j] = NoJob

\* ------------------------------------------- claims, products and images
\* C21: every product in a 200 answer of getAllProducts to a caller who is
\* no ADMIN has the caller's id as userId, whatever the query asked for.
C21_OnlyOwnProducts ==
  (resp.op = "getAllProducts" /\ resp.caller.role # UserRole.ADMIN) =>
    \A i \in 1..Len(resp.data) : resp.data[i].user = resp.caller.id

\* user u1 asked for the products of user u2 and got a product of their own
C21_Witness ==
  /\ resp.op = "getAllProducts"
  /\ resp.code = 200
  /\ resp.caller.id = "u1"
  /\ resp.arg = "u2"
  /\ Len(resp.data) >= 1
  /\ resp.data[1].user = "u1"

\* C22: a step of deleteProductImage that got past the lookup and the
\* permission check and whose deletion from Cloudinary failed is about an
\* image that exists; it answers 200 and has removed exactly that row, or it
\* answers 500 (the deletion of the row was rejected) and has removed that
\* row or nothing.
C22_DeletesDespiteStorageFailure ==
  [][(/\ resp = NoResp
      /\ resp'.op = "deleteProductImage"
      /\ resp'.arg = "fail")
       => /\ images[resp'.subject] # NoImage
          /\ resp'.code \in {200, 500}
          /\ resp'.code = 200
               => images' = [images EXCEPT ![resp'.subject] = NoImage]
          /\ resp'.code = 500
               => images' \in {images, [images EXCEPT ![resp'.subject] = NoImage]}
          /\ UNCHANGED <<users, products>>]_vars

\* the deletion from Cloudinary failed, the row is gone and the answer is 200
C22_Witness ==
  /\ resp.op = "deleteProductImage"
  /\ resp.arg = "fail"
  /\ resp.code = 200
  /\ resp.subject = "i1"
  /\ images["i1"] = NoImage

\* C23: a step of updateProfile for a caller who is neither the user named
\* nor an ADMIN answers 403 and changes no row of users, whether the id
\* names a row or not.
C23_ForeignProfileRefused ==
  [][(/\ resp = NoResp
      /\ resp'.op = "updateProfile"
      /\ resp'.caller.id # resp'.subject
      /\ resp'.caller.role # UserRole.ADMIN)
       => resp'.code = 403 /\ users' = users /\ resp'.data = <<>>]_vars

\* a user who is no ADMIN asked to change the profile of an id no row has
C23_Witness ==
  /\ resp.op = "updateProfile"
  /\ resp.code = 403
  /\ resp.subject = "u0"
  /\ resp.caller.role = UserRole.USER
  /\ UserRow(resp.subject) = NoUser

\* C24 as stated: no product has two images with isPrimary true.
C24_AtMostOnePrimary ==
  \A p \in ProductIds :
    Cardinality({i \in ProductImages(p) : images[i].isPrimary}) <= 1

\* C25 as stated: no user owns two products with the same name.
C25_NoDuplicateNames ==
  \A p, q \in ProductIds :
    (/\ p # q
     /\ products[p] # NoProduct
     /\ products[q] # NoProduct
     /\ products[p].userId = products[q].userId)
      => products[p].name # products[q].name

====
